---------------------------- MODULE Spec2Model ----------------------------
(***************************************************************************)
(* The admission gate (the XTRNState durable object) and the tool request  *)
(* pipeline (XTRNServer) of xtrnlib/index.ts.                              *)
(*                                                                         *)
(*   SpecGate  the gate alone, its five methods called in any order by a   *)
(*             caller, with durable-write failures and actor restarts;     *)
(*   Spec      the server: NumReqs concurrent tool requests, the routes    *)
(*             /wind-down, /reset and /active-requests, actor restarts;    *)
(*   SpecPipe  the server with one request slot, every combination of      *)
(*             header and body forms, every declaration, and /details;     *)
(*   SpecDrain the server under fairness: admitted requests go on;         *)
(*   SpecBuild the set-up of a server: registerTool;                       *)
(*   SpecPaths the server under requests of any method to paths under      *)
(*             /tools/ and outside;                                        *)
(*   SpecMaps  the tool handlers of servers/google-maps against every      *)
(*             outcome of their downstream call;                           *)
(*   SpecCal   getCalendarClient of servers/google-calendar and its cache  *)
(*             of access tokens.                                           *)
(***************************************************************************)
EXTENDS Naturals, Integers, Sequences, FiniteSets, TLC

VARIABLES
  activeRequests,   \* XTRNState.activeRequests (memory only)
  refuseRequests,   \* XTRNState.refuseRequests (memory copy of the flag)
  storage,          \* ctx.storage "refuseRequests": TRUE when stored true
  actor,            \* "ready" | "loading" (constructor's blockConcurrencyWhile)
  gateOp,           \* "idle" | "windDown" | "reset": call awaiting its storage write
  ret,              \* value returned by the last gate call of the direct caller
  nAcq,             \* tryAcquire calls made by the direct caller
  nRel,             \* release calls made by the direct caller
  noDrain,          \* history of the direct caller: no windDown, reset or restart yet
  drained,          \* history of the direct caller: a windDown completed and reset
                    \* was not called since
  fresh,            \* history of the direct caller: the actor restarted and no
                    \* mutating call ran since
  lost,             \* history of the direct caller: the count the last restart dropped
  unmatched,        \* history of the direct caller: some release was called when
                    \* no more acquires than releases had been called
  wasReset,         \* history of the direct caller: a reset completed and neither
                    \* windDown nor reset was called since
  server,           \* XTRNServer: config (the declared userConfig and oauthConfig)
                    \* and the names in tools, in the order of registration;
                    \* in SpecCal also the module's access_token_map and clock
  req,              \* the tool requests, one record per request slot; in
                    \* SpecMaps and SpecCal the handler calls under way
  adminResp,        \* the response /wind-down, /reset or /active-requests just gave
  skewed,           \* history: a reset or restart happened with requests in flight
  after500          \* history of SpecPipe: a request answered by the catch block
                    \* has been delivered

gateVars == <<activeRequests, refuseRequests, storage, actor, gateOp>>
histVars == <<noDrain, drained, fresh, lost, unmatched, wasReset>>
callerVars == <<ret, nAcq, nRel>>
serverVars == <<server, req, adminResp, skewed, after500>>
vars == <<gateVars, histVars, callerVars, serverVars>>

(***************************************************************************)
(* Bounds                                                                  *)
(***************************************************************************)
MaxCalls == 4       \* tryAcquire (and release) calls of the direct caller
NumReqs == 2        \* request slots of Spec: tool requests that can overlap
MaxTools == 4       \* registerTool calls that SpecBuild lets succeed

(***************************************************************************)
(* XTRNState: the gate actor                                               *)
(***************************************************************************)
\* calls delivered while the constructor's load is still under way
InputGateOpen_NoBlock == gateOp = "idle"

\* A call is delivered only to a constructed actor whose input gate is open:
\* blockConcurrencyWhile holds calls back during the load, and a pending
\* storage operation holds back every other event.
InputGateOpen == actor = "ready" /\ gateOp = "idle"

\* the constructor without the load
LoadedFlag_Never == FALSE

\* storage.get("refuseRequests") || false
LoadedFlag == IF storage THEN TRUE ELSE FALSE

\* n - 1, without the floor
Floor0_NoFloor (n) == n - 1

\* Math.max(0, n), without the decrement
Floor0_NoDec (n) == IF n > 0 THEN n ELSE 0

\* Math.max(0, n - 1)
Floor0 (n) == IF n - 1 > 0 THEN n - 1 ELSE 0

\* the increment placed before the test of the flag
AcquireCount_Always == activeRequests + 1

\* the increment of a call that read the counter before any other call wrote
AcquireCount_Torn == IF refuseRequests THEN activeRequests ELSE 0 + 1

\* tryAcquire(): what it leaves in activeRequests
AcquireCount == IF refuseRequests THEN activeRequests ELSE activeRequests + 1

\* tryAcquire() that reports the count an admission would give
AcquireResult_Next ==
  [op |-> "tryAcquire", allowed |-> ~refuseRequests,
   activeRequests |-> activeRequests + 1, refusing |-> refuseRequests]

\* tryAcquire(): the value it returns
AcquireResult ==
  [op |-> "tryAcquire", allowed |-> ~refuseRequests,
   activeRequests |-> AcquireCount, refusing |-> refuseRequests]

tryAcquire ==
  /\ InputGateOpen
  /\ activeRequests' = AcquireCount
  /\ UNCHANGED <<refuseRequests, storage, actor, gateOp>>

\* release() that returns the count and leaves it
ReleaseCount_Kept == activeRequests

\* release() that skips the decrement while the gate refuses
ReleaseCount_WhenAccepting ==
  IF refuseRequests THEN activeRequests ELSE Floor0(activeRequests)

\* release(): what it leaves in activeRequests, which it also returns
ReleaseCount == Floor0(activeRequests)

ReleaseResult ==
  [op |-> "release", allowed |-> FALSE,
   activeRequests |-> ReleaseCount, refusing |-> refuseRequests]

release ==
  /\ InputGateOpen
  /\ activeRequests' = ReleaseCount
  /\ UNCHANGED <<refuseRequests, storage, actor, gateOp>>

\* getState()
StateResult ==
  [op |-> "getState", allowed |-> FALSE,
   activeRequests |-> activeRequests, refusing |-> refuseRequests]

getState ==
  /\ InputGateOpen
  /\ UNCHANGED gateVars

\* windDown() that flips the flag
WindDownFlag_Toggle == ~refuseRequests

\* windDown(), up to its await: the flag is set in memory, the put is pending
WindDownFlag == TRUE

windDownBegin ==
  /\ InputGateOpen
  /\ refuseRequests' = WindDownFlag
  /\ gateOp' = "windDown"
  /\ UNCHANGED <<activeRequests, storage, actor>>

\* windDown(), the put: it stores true and the call returns, or it rejects
\* and the call throws with the memory flag already set
WindDownResult ==
  [op |-> "windDown", allowed |-> FALSE,
   activeRequests |-> activeRequests, refusing |-> refuseRequests]

PutValue (ok) == IF ok THEN TRUE ELSE storage

windDownPut (ok) ==
  /\ actor = "ready" /\ gateOp = "windDown"
  /\ storage' = PutValue(ok)
  /\ gateOp' = "idle"
  /\ UNCHANGED <<activeRequests, refuseRequests, actor>>

\* reset(), up to its await
resetBegin ==
  /\ InputGateOpen
  /\ activeRequests' = 0
  /\ refuseRequests' = FALSE
  /\ gateOp' = "reset"
  /\ UNCHANGED <<storage, actor>>

\* reset() that leaves the key in storage
DeleteValue_Kept (ok) == storage

\* reset(), the delete: it removes the key, or it rejects and the call throws
DeleteValue (ok) == IF ok THEN FALSE ELSE storage

resetDelete (ok) ==
  /\ actor = "ready" /\ gateOp = "reset"
  /\ storage' = DeleteValue(ok)
  /\ gateOp' = "idle"
  /\ UNCHANGED <<activeRequests, refuseRequests, actor>>

\* The runtime discards the actor (eviction, crash, deploy) and constructs a
\* new one on the same storage: the field initialisers run, and the load of
\* the flag starts under blockConcurrencyWhile.
\* the count carried over a restart
InitialCount_Kept == activeRequests

\* line 16: private activeRequests = 0
InitialCount == 0

RestartBegin ==
  /\ InputGateOpen
  /\ activeRequests' = InitialCount
  /\ refuseRequests' = FALSE
  /\ actor' = "loading"
  /\ UNCHANGED <<storage, gateOp>>

\* The constructor's callback completes: the flag is read from storage
RestartLoad ==
  /\ actor = "loading"
  /\ refuseRequests' = LoadedFlag
  /\ actor' = "ready"
  /\ UNCHANGED <<activeRequests, storage, gateOp>>

(***************************************************************************)
(* Values on the wire                                                      *)
(*                                                                         *)
(* A JSON value is [t, v, f]: t its type, v the text of a scalar, f the    *)
(* members <<key, type, text>> of an object.  A header is [kind, text]:    *)
(* absent (undefined), empty (""), garbage (not base64) or b64 with the    *)
(* text it encodes.  A JSON text is [json, val]: whether it parses, and    *)
(* to what.                                                                *)
(***************************************************************************)
JObj (members) == [t |-> "obj", v |-> "", f |-> members]
JNull == [t |-> "null", v |-> "", f |-> {}]
EmptyObj == JObj({})

JsonText (val) == [json |-> TRUE, val |-> val]
NotJson == [json |-> FALSE, val |-> JNull]

B64 (text) == [kind |-> "b64", text |-> text]

\* X-XTRN-Config header forms
CfgAbsent == [kind |-> "absent", text |-> NotJson]
CfgEmpty == [kind |-> "empty", text |-> NotJson]
CfgGarbage == [kind |-> "garbage", text |-> NotJson]
CfgNotJson == B64(NotJson)
CfgLocale == B64(JsonText(JObj({<<"locale", "str", "en">>})))
CfgLocaleExtra == B64(JsonText(JObj({<<"locale", "str", "de">>, <<"extra", "str", "x">>})))
CfgWrongType == B64(JsonText(JObj({<<"locale", "num", "5">>})))
CfgNull == B64(JsonText(JNull))

\* X-XTRN-Token header forms
TokAbsent == [kind |-> "absent", text |-> ""]
TokEmpty == [kind |-> "empty", text |-> ""]
TokGarbage == [kind |-> "garbage", text |-> ""]
TokA == B64("refresh-A")
TokB == B64("refresh-B")

\* request body forms, for a tool whose schema is z.object({ q: z.string() })
BodyNotJson == NotJson
BodyX == JsonText(JObj({<<"q", "str", "x">>}))
BodyY == JsonText(JObj({<<"q", "str", "y">>, <<"page", "num", "2">>}))
BodyNoQ == JsonText(EmptyObj)

ToolSchema == {<<"q", "str">>}

\* `if (header)`: undefined and "" are falsy
Truthy (h) == h.kind \notin {"absent", "empty"}

\* atob(h): throws unless h is base64
atob (h) == [ok |-> h.kind = "b64", out |-> h.text]

\* JSON.parse(text), honoCtx.req.json(): throws unless the text is JSON
JSONparse (text) == [ok |-> text.json, val |-> text.val]

\* z.safeParse(z.object(shape), value): the value must be an object holding
\* every declared key with the declared type; the data keeps declared keys only
SafeParseSuccess (shape, value) ==
  /\ value.t = "obj"
  /\ \A kt \in shape : \E m \in value.f : m[1] = kt[1] /\ m[2] = kt[2]

SafeParseData (shape, value) ==
  JObj({m \in value.f : \E kt \in shape : kt[1] = m[1]})

\* generateUserConfigSchema(userConfig): null when nothing is declared
HasUserConfigSchema == server.userConfig # {}

(***************************************************************************)
(* XTRNResponse                                                            *)
(***************************************************************************)
Resp (status, text, by) == [status |-> status, text |-> text, by |-> by]
NoResp == Resp(0, "", "")

ResJson (by) == Resp(200, "json", by)
ResBadRequestArgs (reason, by) == Resp(400, reason, by)
ResError (error, by) == Resp(500, error, by)
ResUnauthorized (by) == Resp(401, "", by)

MsgConfigHeader == "Invalid X-XTRN-Config header: must be base64-encoded JSON"
MsgConfigInvalid == "Config validation failed"
MsgTokenHeader == "Invalid X-XTRN-Token header: must be base64-encoded"
MsgTokenRequired == "X-XTRN-Token header is required for OAuth-enabled servers"
MsgBodyJson == "Invalid JSON body"
MsgParamsInvalid == "Tool params validation failed"
MsgWindingDown == "Server is winding down"

(***************************************************************************)
(* The tool route, up to its first await: the two headers                  *)
(***************************************************************************)
NoToken == [some |-> FALSE, v |-> ""]
SomeToken (v) == [some |-> TRUE, v |-> v]

\* `!refreshToken`: null and "" are falsy
TokenFalsy (tok) == ~tok.some \/ tok.v = ""

HeadOut (ok, resp, userConfig, refreshToken, trace) ==
  [ok |-> ok, resp |-> resp, userConfig |-> userConfig,
   refreshToken |-> refreshToken, trace |-> trace]

\* the token is never asked for
TokenRequiredStep_Never (userConfig, refreshToken, trace) ==
  HeadOut(TRUE, NoResp, userConfig, refreshToken, Append(trace, "tokenRequired"))

\* the missing token answered with unauthorized()
TokenRequiredStep_Unauthorized (userConfig, refreshToken, trace) ==
  IF server.oauthConfig /\ TokenFalsy(refreshToken)
    THEN HeadOut(FALSE, ResUnauthorized("pipeline"),
                 userConfig, refreshToken, Append(trace, "tokenRequired"))
    ELSE HeadOut(TRUE, NoResp, userConfig, refreshToken, Append(trace, "tokenRequired"))

\* lines 424-429: the token must be there when oauthConfig is declared
TokenRequiredStep (userConfig, refreshToken, trace) ==
  IF server.oauthConfig /\ TokenFalsy(refreshToken)
    THEN HeadOut(FALSE, ResBadRequestArgs(MsgTokenRequired, "pipeline"),
              userConfig, refreshToken, Append(trace, "tokenRequired"))
    ELSE HeadOut(TRUE, NoResp, userConfig, refreshToken, Append(trace, "tokenRequired"))

\* lines 412-422: the token header is decoded when it is there
TokenDecodeStep (tokH, userConfig, trace) ==
  IF Truthy(tokH)
    THEN IF atob(tokH).ok
           THEN TokenRequiredStep(userConfig, SomeToken(atob(tokH).out),
                                  Append(trace, "tokenDecode"))
           ELSE HeadOut(FALSE, ResBadRequestArgs(MsgTokenHeader, "pipeline"),
                     userConfig, NoToken, Append(trace, "tokenDecode"))
    ELSE TokenRequiredStep(userConfig, NoToken, trace)

\* lines 397-410: the config is validated when a schema was generated
ConfigValidateStep (tokH, userConfig, trace) ==
  IF HasUserConfigSchema
    THEN IF SafeParseSuccess(server.userConfig, userConfig)
           THEN TokenDecodeStep(tokH, SafeParseData(server.userConfig, userConfig),
                                Append(trace, "configValidate"))
           ELSE HeadOut(FALSE, ResBadRequestArgs(MsgConfigInvalid, "pipeline"),
                     userConfig, NoToken, Append(trace, "configValidate"))
    ELSE TokenDecodeStep(tokH, userConfig, trace)

\* the token header decoded ahead of the config header
ConfigDecodeStep_TokenFirst (cfgH, tokH, trace) ==
  IF Truthy(tokH) /\ ~atob(tokH).ok
    THEN HeadOut(FALSE, ResBadRequestArgs(MsgTokenHeader, "pipeline"),
                 EmptyObj, NoToken, Append(trace, "tokenDecode"))
  ELSE IF Truthy(cfgH)
    THEN IF atob(cfgH).ok /\ JSONparse(atob(cfgH).out).ok
           THEN ConfigValidateStep(tokH, JSONparse(atob(cfgH).out).val,
                                   Append(trace, "configDecode"))
           ELSE HeadOut(FALSE, ResBadRequestArgs(MsgConfigHeader, "pipeline"),
                        EmptyObj, NoToken, Append(trace, "configDecode"))
    ELSE ConfigValidateStep(tokH, EmptyObj, trace)

\* the validation placed inside `if (configHeader)`
ConfigDecodeStep_SkipAbsent (cfgH, tokH, trace) ==
  IF Truthy(cfgH)
    THEN IF atob(cfgH).ok /\ JSONparse(atob(cfgH).out).ok
           THEN ConfigValidateStep(tokH, JSONparse(atob(cfgH).out).val,
                                   Append(trace, "configDecode"))
           ELSE HeadOut(FALSE, ResBadRequestArgs(MsgConfigHeader, "pipeline"),
                        EmptyObj, NoToken, Append(trace, "configDecode"))
    ELSE TokenDecodeStep(tokH, EmptyObj, trace)

\* lines 385-395: the config header is decoded and parsed when it is there
ConfigDecodeStep (cfgH, tokH, trace) ==
  IF Truthy(cfgH)
    THEN IF atob(cfgH).ok /\ JSONparse(atob(cfgH).out).ok
           THEN ConfigValidateStep(tokH, JSONparse(atob(cfgH).out).val,
                                   Append(trace, "configDecode"))
           ELSE HeadOut(FALSE, ResBadRequestArgs(MsgConfigHeader, "pipeline"),
                     EmptyObj, NoToken, Append(trace, "configDecode"))
    ELSE ConfigValidateStep(tokH, EmptyObj, trace)

(***************************************************************************)
(* The tool route, from the body to the call of the handler                *)
(***************************************************************************)
NoCtx == [req |-> JNull, config |-> JNull, hasToken |-> FALSE, token |-> "",
          hasOauth |-> FALSE]

\* token and oauth attached whenever a token was decoded
BuildContext_AnyToken (params, userConfig, refreshToken) ==
  [req |-> params, config |-> userConfig,
   hasToken |-> ~TokenFalsy(refreshToken),
   token |-> IF ~TokenFalsy(refreshToken) THEN refreshToken.v ELSE "",
   hasOauth |-> ~TokenFalsy(refreshToken)]

\* lines 447-475: req, config, and token and oauth under oauthConfig
BuildContext (params, userConfig, refreshToken) ==
  [req |-> params, config |-> userConfig,
   hasToken |-> server.oauthConfig /\ ~TokenFalsy(refreshToken),
   token |-> IF server.oauthConfig /\ ~TokenFalsy(refreshToken)
               THEN refreshToken.v ELSE "",
   hasOauth |-> server.oauthConfig /\ ~TokenFalsy(refreshToken)]

\* error.message, whatever was thrown
ErrorText_MessageOnly (e) == e.message

\* error instanceof Error ? error.message : String(error)
ErrorText (e) == IF e.isError THEN e.message ELSE e.value

CatchResponse (e) == ResError(ErrorText(e), "pipeline")

NoThrow == [some |-> FALSE, e |-> [isError |-> FALSE, message |-> "", value |-> ""]]
Throw (e) == [some |-> TRUE, e |-> e]

Thrown1 == [isError |-> TRUE, message |-> "boom", value |-> ""]
Thrown2 == [isError |-> FALSE, message |-> "", value |-> "oops"]
EnvError == [isError |-> TRUE, message |-> "env unavailable", value |-> ""]

TailOut (next, resp, ctx, thrown, trace) ==
  [next |-> next, resp |-> resp, ctx |-> ctx, thrown |-> thrown, trace |-> trace]

\* lines 431-478; envOk: whether env(honoCtx) returns rather than throws
BodySteps (body, userConfig, refreshToken, envOk, trace) ==
  IF ~JSONparse(body).ok
    THEN TailOut("respond", ResBadRequestArgs(MsgBodyJson, "pipeline"), NoCtx,
                 NoThrow, Append(trace, "bodyParse"))
  ELSE IF ~SafeParseSuccess(ToolSchema, JSONparse(body).val)
    THEN TailOut("respond", ResBadRequestArgs(MsgParamsInvalid, "pipeline"), NoCtx,
                 NoThrow, trace \o <<"bodyParse", "bodyValidate">>)
  ELSE IF server.oauthConfig /\ ~TokenFalsy(refreshToken) /\ ~envOk
    THEN TailOut("respond", CatchResponse(EnvError), NoCtx, Throw(EnvError),
                 trace \o <<"bodyParse", "bodyValidate", "build">>)
  ELSE TailOut("handler", NoResp,
               BuildContext(SafeParseData(ToolSchema, JSONparse(body).val),
                            userConfig, refreshToken),
               NoThrow, trace \o <<"bodyParse", "bodyValidate", "build", "handler">>)

\* what a handler can do with its context: answer through ctx.res, or throw
HandlerOutcomes ==
  {[kind |-> "json", e |-> Thrown1], [kind |-> "unauthorized", e |-> Thrown1],
   [kind |-> "throw", e |-> Thrown1], [kind |-> "throw", e |-> Thrown2]}

\* the handlers of Spec: one that answers, one that throws
BasicOutcomes == {[kind |-> "json", e |-> Thrown1], [kind |-> "throw", e |-> Thrown1]}

HandlerThrown (o) == IF o.kind = "throw" THEN Throw(o.e) ELSE NoThrow

HandlerResponse (o) ==
  CASE o.kind = "json" -> ResJson("handler")
    [] o.kind = "unauthorized" -> ResUnauthorized("handler")
    [] o.kind = "throw" -> CatchResponse(o.e)

(***************************************************************************)
(* Tool requests                                                           *)
(***************************************************************************)
\* failed: history, the storage write of the gate call behind it was rejected
Admin (route, status, text, n, refusing) ==
  [route |-> route, status |-> status, text |-> text,
   activeRequests |-> n, refusing |-> refusing, failed |-> FALSE]
NoAdmin == Admin("", 0, "", 0, FALSE)
Pending (route) == Admin(route, 0, "", 0, FALSE)

\* the route threw: Hono's error handler answers
InternalError (route) == Admin(route, 500, "Internal Server Error", 0, FALSE)

\* lines 316 and 333: the messages of /wind-down and /reset
SuccessText (route) ==
  IF route = "/wind-down" THEN "Server is now refusing new requests" ELSE "State reset"

\* the route catching the rejection and answering as usual
GateCallRejected_Swallowed (route) == Admin(route, 200, SuccessText(route), 0, FALSE)

\* lines 314 and 332: `await stub.windDown()` and `await stub.reset()` stand
\* in no try block, so the rejection leaves the route
GateCallRejected (route) == InternalError(route)

\* request paths, by segment
ToolPath == <<"tools", "echo">>
DetailsPath == <<"details">>
WindDownPath == <<"wind-down">>
ActiveRequestsPath == <<"active-requests">>
ResetPath == <<"reset">>

\* the middleware registered for every path
Guarded_All (path) == TRUE

\* the middleware attached to the route of each registered tool
Guarded_Registered (path) ==
  Len(path) = 2 /\ path[1] = "tools" /\ \E i \in DOMAIN server.tools : server.tools[i] = path[2]

\* line 296: app.use("/tools/*", ...), the paths the middleware is run for
Guarded (path) == Len(path) > 0 /\ path[1] = "tools"

\* lines 298-301 for a path the middleware is run for: 503 while refusing
StoppedByGate (path) == Guarded(path) /\ refuseRequests

Refused (route) == Admin(route, 503, MsgWindingDown, 0, FALSE)

Reqs == 1 .. NumReqs

Input (cfgH, tokH, body) == [cfgH |-> cfgH, tokH |-> tokH, body |-> body]

\* every combination of header and body forms
AllInputs ==
  [cfgH : {CfgAbsent, CfgEmpty, CfgGarbage, CfgNotJson, CfgLocale,
           CfgLocaleExtra, CfgWrongType, CfgNull},
   tokH : {TokAbsent, TokEmpty, TokGarbage, TokA},
   body : {BodyNotJson, BodyX, BodyNoQ}]

\* the requests of Spec: two that are well formed and differ, and a bare one
BasicInputs ==
  {Input(CfgLocale, TokA, BodyX), Input(CfgLocaleExtra, TokB, BodyY),
   Input(CfgAbsent, TokAbsent, BodyX)}

IdleReq ==
  [pc |-> "idle", in |-> Input(CfgAbsent, TokAbsent, BodyNotJson),
   allowed |-> FALSE, userConfig |-> EmptyObj, refreshToken |-> NoToken,
   resp |-> NoResp, trace |-> <<>>, ctx |-> NoCtx, relCalls |-> 0,
   thrown |-> NoThrow]

\* requests admitted by tryAcquire whose release has not been called
InFlight == {r \in Reqs : req[r].allowed /\ req[r].relCalls = 0 /\ req[r].pc # "idle"}

\* A request under /tools/ reaches the middleware, whose tryAcquire runs on
\* the gate (line 298)
ToolRequest (r, in) ==
  /\ req[r].pc = "idle"
  /\ Guarded(ToolPath)
  /\ tryAcquire
  /\ req' = [req EXCEPT ![r] =
       [IdleReq EXCEPT !.pc = "acquired", !.in = in,
                       !.allowed = AcquireResult.allowed,
                       !.trace = <<"tryAcquire">>]]
  /\ adminResp' = NoAdmin
  /\ UNCHANGED <<histVars, callerVars, server, skewed, after500>>

\* the test of `allowed` placed inside the try block
AfterRefusal_InTry == "releasing"

\* lines 299-301: the refused request is answered 503, before the try block
AfterRefusal == "done"

\* release after next() with no finally: skipped when the route failed
AfterRoute_NoFinally (resp) == IF resp.status = 500 THEN "done" ELSE "releasing"

\* lines 303-307: whatever next() did, the finally block is next
AfterRoute (resp) == "releasing"

Refuse (r) ==
  /\ req[r].pc = "acquired"
  /\ ~req[r].allowed
  /\ req' = [req EXCEPT ![r].pc = AfterRefusal,
                        ![r].resp = Resp(503, MsgWindingDown, "pipeline")]
  /\ adminResp' = NoAdmin
  /\ UNCHANGED <<gateVars, histVars, callerVars, server, skewed, after500>>

\* lines 303-304 and 371-429: next() enters the route, which runs to its
\* first await or to a 400
HeadResult (r) == ConfigDecodeStep(req[r].in.cfgH, req[r].in.tokH, req[r].trace)

RouteHeaders (r) ==
  /\ req[r].pc = "acquired"
  /\ req[r].allowed
  /\ req' = [req EXCEPT ![r].pc = IF HeadResult(r).ok THEN "body"
                                    ELSE AfterRoute(HeadResult(r).resp),
                        ![r].resp = HeadResult(r).resp,
                        ![r].userConfig = HeadResult(r).userConfig,
                        ![r].refreshToken = HeadResult(r).refreshToken,
                        ![r].trace = HeadResult(r).trace]
  /\ adminResp' = NoAdmin
  /\ UNCHANGED <<gateVars, histVars, callerVars, server, skewed, after500>>

\* config and credential kept in one place shared by the requests of the server
TailResult_Shared (r, envOk) ==
  BodySteps(req[r].in.body, req[1].userConfig, req[1].refreshToken, envOk, req[r].trace)

\* lines 431-478: the body has been read; the route runs to the call of the
\* handler, to a 400, or to the catch block
TailResult (r, envOk) ==
  BodySteps(req[r].in.body, req[r].userConfig, req[r].refreshToken, envOk, req[r].trace)

RouteBody (r, envOk) ==
  /\ req[r].pc = "body"
  /\ req' = [req EXCEPT ![r].pc = IF TailResult(r, envOk).next = "handler"
                                    THEN "handler"
                                    ELSE AfterRoute(TailResult(r, envOk).resp),
                        ![r].resp = TailResult(r, envOk).resp,
                        ![r].thrown = TailResult(r, envOk).thrown,
                        ![r].ctx = TailResult(r, envOk).ctx,
                        ![r].trace = TailResult(r, envOk).trace]
  /\ adminResp' = NoAdmin
  /\ UNCHANGED <<gateVars, histVars, callerVars, server, skewed, after500>>

\* lines 478-485: the handler returns a response or throws into the catch
HandlerCompletes (r, o) ==
  /\ req[r].pc = "handler"
  /\ req' = [req EXCEPT ![r].pc = AfterRoute(HandlerResponse(o)),
                        ![r].resp = HandlerResponse(o),
                        ![r].thrown = HandlerThrown(o)]
  /\ adminResp' = NoAdmin
  /\ UNCHANGED <<gateVars, histVars, callerVars, server, skewed, after500>>

\* lines 305-307: the finally block calls release, then the response leaves
ReleaseCalls (r) == req[r].relCalls + 1

Release (r) ==
  /\ req[r].pc = "releasing"
  /\ release
  /\ req' = [req EXCEPT ![r].pc = "done", ![r].relCalls = ReleaseCalls(r),
                        ![r].trace = Append(req[r].trace, "release")]
  /\ skewed' = (skewed /\ InFlight \ {r} # {})
  /\ adminResp' = NoAdmin
  /\ UNCHANGED <<histVars, callerVars, server, after500>>

\* the response has been delivered: the slot serves the next request
Forget (r) ==
  /\ req[r].pc = "done"
  /\ req' = [req EXCEPT ![r] = IdleReq]
  /\ adminResp' = NoAdmin
  /\ UNCHANGED <<gateVars, histVars, callerVars, server, skewed>>

(***************************************************************************)
(* The routes /wind-down, /reset and /active-requests                      *)
(***************************************************************************)
\* lines 311-320
WindDownRoute ==
  /\ IF StoppedByGate(WindDownPath)
       THEN getState /\ adminResp' = Refused("/wind-down")
       ELSE windDownBegin /\ adminResp' = Pending("/wind-down")
  /\ UNCHANGED <<histVars, callerVars, server, req, skewed, after500>>

WindDownRouteResponds ==
  /\ windDownPut(TRUE)
  /\ adminResp' = Admin("/wind-down", 200, SuccessText("/wind-down"),
                        WindDownResult.activeRequests, FALSE)
  /\ UNCHANGED <<histVars, callerVars, server, req, skewed, after500>>

WindDownRouteFails ==
  /\ windDownPut(FALSE)
  /\ adminResp' = [GateCallRejected("/wind-down") EXCEPT !.failed = TRUE]
  /\ UNCHANGED <<histVars, callerVars, server, req, skewed, after500>>

\* lines 329-335
ResetRoute ==
  /\ IF StoppedByGate(ResetPath)
       THEN getState /\ adminResp' = Refused("/reset")
       ELSE resetBegin /\ adminResp' = Pending("/reset")
  /\ skewed' = (skewed \/ InFlight # {})
  /\ UNCHANGED <<histVars, callerVars, server, req, after500>>

ResetRouteResponds ==
  /\ resetDelete(TRUE)
  /\ adminResp' = Admin("/reset", 200, SuccessText("/reset"), 0, FALSE)
  /\ UNCHANGED <<histVars, callerVars, server, req, skewed, after500>>

ResetRouteFails ==
  /\ resetDelete(FALSE)
  /\ adminResp' = [GateCallRejected("/reset") EXCEPT !.failed = TRUE]
  /\ UNCHANGED <<histVars, callerVars, server, req, skewed, after500>>

\* lines 322-327
ActiveRequestsRoute ==
  /\ getState
  /\ adminResp' = IF StoppedByGate(ActiveRequestsPath)
                    THEN Refused("/active-requests")
                    ELSE Admin("/active-requests", 200, "",
                               StateResult.activeRequests, StateResult.refusing)
  /\ UNCHANGED <<histVars, callerVars, server, req, skewed, after500>>

\* lines 489-525: /details assembles the description of the server, reading
\* the environment when oauthConfig is declared; it makes no call to the gate
DetailsRoute (envOk) ==
  /\ adminResp' = IF StoppedByGate(DetailsPath) THEN Refused("/details")
                  ELSE IF server.oauthConfig /\ ~envOk THEN InternalError("/details")
                  ELSE Admin("/details", 200, "details", 0, FALSE)
  /\ UNCHANGED <<gateVars, histVars, callerVars, server, req, skewed, after500>>

\* the gate actor restarts under the running server
GateRestarts ==
  /\ RestartBegin
  /\ skewed' = (skewed \/ InFlight # {})
  /\ adminResp' = NoAdmin
  /\ UNCHANGED <<histVars, callerVars, server, req, after500>>

GateLoaded ==
  /\ RestartLoad
  /\ adminResp' = NoAdmin
  /\ UNCHANGED <<histVars, callerVars, server, req, skewed, after500>>

(***************************************************************************)
(* The gate called directly, one call at a time                            *)
(***************************************************************************)
NoRet == [op |-> "none", allowed |-> FALSE, activeRequests |-> 0, refusing |-> FALSE]
Thrown == [op |-> "throw", allowed |-> FALSE, activeRequests |-> 0, refusing |-> FALSE]

CallTryAcquire ==
  /\ nAcq < MaxCalls
  /\ tryAcquire
  /\ ret' = AcquireResult
  /\ nAcq' = nAcq + 1
  /\ fresh' = (fresh /\ ~AcquireResult.allowed)
  /\ UNCHANGED <<nRel, noDrain, drained, lost, unmatched, wasReset, serverVars>>

CallRelease ==
  /\ nRel < MaxCalls
  /\ release
  /\ ret' = ReleaseResult
  /\ nRel' = nRel + 1
  /\ fresh' = FALSE
  /\ unmatched' = (unmatched \/ nRel >= nAcq)
  /\ UNCHANGED <<nAcq, noDrain, drained, lost, wasReset, serverVars>>

CallGetState ==
  /\ getState
  /\ ret' = StateResult
  /\ UNCHANGED <<nAcq, nRel, histVars, serverVars>>

CallWindDown ==
  /\ windDownBegin
  /\ ret' = NoRet
  /\ noDrain' = FALSE
  /\ fresh' = FALSE
  /\ wasReset' = FALSE
  /\ UNCHANGED <<nAcq, nRel, drained, lost, unmatched, serverVars>>

WindDownReturns ==
  /\ windDownPut(TRUE)
  /\ ret' = WindDownResult
  /\ drained' = TRUE
  /\ UNCHANGED <<nAcq, nRel, noDrain, fresh, lost, unmatched, wasReset, serverVars>>

WindDownThrows ==
  /\ windDownPut(FALSE)
  /\ ret' = Thrown
  /\ UNCHANGED <<nAcq, nRel, histVars, serverVars>>

CallReset ==
  /\ resetBegin
  /\ ret' = NoRet
  /\ noDrain' = FALSE
  /\ drained' = FALSE
  /\ fresh' = FALSE
  /\ wasReset' = FALSE
  /\ UNCHANGED <<nAcq, nRel, lost, unmatched, serverVars>>

ResetReturns ==
  /\ resetDelete(TRUE)
  /\ ret' = [op |-> "reset", allowed |-> FALSE, activeRequests |-> 0, refusing |-> FALSE]
  /\ wasReset' = TRUE
  /\ UNCHANGED <<nAcq, nRel, noDrain, drained, fresh, lost, unmatched, serverVars>>

ResetThrows ==
  /\ resetDelete(FALSE)
  /\ ret' = Thrown
  /\ UNCHANGED <<nAcq, nRel, histVars, serverVars>>

\* the restart drops the count; no call has returned from the new instance
ActorRestarts ==
  /\ RestartBegin
  /\ noDrain' = FALSE
  /\ lost' = activeRequests
  /\ ret' = NoRet
  /\ UNCHANGED <<nAcq, nRel, drained, fresh, unmatched, wasReset, serverVars>>

ActorLoaded ==
  /\ RestartLoad
  /\ fresh' = TRUE
  /\ UNCHANGED <<callerVars, noDrain, drained, lost, unmatched, wasReset, serverVars>>

(***************************************************************************)
(* XTRNServer.registerTool, called while the server is set up              *)
(***************************************************************************)
ToolNames == {"echo", "ping", "sum"}

\* a schema object of Zod v4 has the key _zod, one of Zod v3 has not
Zod4Schema == [hasZodKey |-> TRUE]
Zod3Schema == [hasZodKey |-> FALSE]

\* lines 214-216
isZod4 (schema) == schema.hasZodKey

Registered == [op |-> "registerTool", allowed |-> FALSE, activeRequests |-> 0,
               refusing |-> FALSE]

\* lines 337-363: the schema is tested, the tool is pushed, its route is set up
RegisterTool (name, schema) ==
  /\ Len(server.tools) < MaxTools
  /\ IF ~isZod4(schema)
       THEN ret' = Thrown /\ UNCHANGED server
       ELSE /\ server' = [server EXCEPT !.tools = Append(@, name)]
            /\ ret' = Registered
  /\ UNCHANGED <<gateVars, histVars, nAcq, nRel, req, adminResp, skewed, after500>>

(***************************************************************************)
(* What each input does at each check, read off the request alone          *)
(***************************************************************************)
Range (seq) == {seq[i] : i \in DOMAIN seq}

FixedOrder ==
  <<"configDecode", "configValidate", "tokenDecode", "tokenRequired",
    "bodyParse", "bodyValidate">>

StepOrder == <<"tryAcquire">> \o FixedOrder \o <<"build", "handler", "release">>

HasMember (value, key, type) ==
  value.t = "obj" /\ \E m \in value.f : m[1] = key /\ m[2] = type

ConfigSent (in) == IF in.cfgH.kind = "b64" THEN in.cfgH.text.val ELSE EmptyObj

Fails (step, in) ==
  CASE step = "configDecode" ->
         in.cfgH.kind = "garbage" \/ (in.cfgH.kind = "b64" /\ ~in.cfgH.text.json)
    [] step = "configValidate" ->
         \E kt \in server.userConfig : ~HasMember(ConfigSent(in), kt[1], kt[2])
    [] step = "tokenDecode" -> in.tokH.kind = "garbage"
    [] step = "tokenRequired" ->
         server.oauthConfig /\ (in.tokH.kind # "b64" \/ in.tokH.text = "")
    [] step = "bodyParse" -> ~in.body.json
    [] step = "bodyValidate" -> ~HasMember(in.body.val, "q", "str")

MsgOf (step) ==
  CASE step = "configDecode" -> MsgConfigHeader
    [] step = "configValidate" -> MsgConfigInvalid
    [] step = "tokenDecode" -> MsgTokenHeader
    [] step = "tokenRequired" -> MsgTokenRequired
    [] step = "bodyParse" -> MsgBodyJson
    [] step = "bodyValidate" -> MsgParamsInvalid

\* the first check of the fixed order that the input fails, 0 when none
FirstFailure (in) ==
  IF \E i \in DOMAIN FixedOrder : Fails(FixedOrder[i], in)
    THEN CHOOSE i \in DOMAIN FixedOrder :
           /\ Fails(FixedOrder[i], in)
           /\ \A j \in 1 .. (i - 1) : ~Fails(FixedOrder[j], in)
    ELSE 0

Position (step) == CHOOSE i \in DOMAIN StepOrder : StepOrder[i] = step

\* the route has finished for an admitted request
Answered (r) == req[r].allowed /\ req[r].pc \in {"releasing", "done"}

(***************************************************************************)
(* C1 (SpecPipe).  Every request that tryAcquire admitted calls release    *)
(* exactly once before it completes, whether the route answered 400, the   *)
(* handler answered or something threw; a refused request never calls it;  *)
(* and no request calls it before its route has finished.                  *)
(***************************************************************************)
C1_ReleaseExactlyOnce ==
  \A r \in Reqs :
    /\ req[r].relCalls <= 1
    /\ (req[r].pc = "done" /\ req[r].allowed) => req[r].relCalls = 1
    /\ ~req[r].allowed => req[r].relCalls = 0
    /\ req[r].pc \in {"acquired", "body", "handler", "releasing"} => req[r].relCalls = 0

C1_Witness ==
  \E r \in Reqs :
    /\ req[r].pc = "done" /\ req[r].allowed
    /\ req[r].thrown.some /\ req[r].resp.status = 500
    /\ req[r].relCalls = 1

(***************************************************************************)
(* C2 (SpecGate).  Once a windDown has completed and until reset is        *)
(* called, every tryAcquire returns allowed = false and the loaded gate is *)
(* Draining, also across restarts; and of the gate's operations only reset *)
(* takes a loaded gate from Draining to Accepting.                         *)
(***************************************************************************)
C2_Drained ==
  drained =>
    /\ actor = "ready" => refuseRequests
    /\ ret.op = "tryAcquire" => ~ret.allowed

C2_OnlyReset ==
  (actor = "ready" /\ actor' = "ready" /\ refuseRequests /\ ~refuseRequests')
    => gateOp' = "reset"

C2_DrainIsOneWay == [](C2_Drained) /\ [][C2_OnlyReset]_vars

C2_Witness ==
  /\ drained /\ fresh
  /\ ret.op = "tryAcquire" /\ ~ret.allowed
  /\ lost > 0

(***************************************************************************)
(* C3 (Spec).  As claimed: whenever no gate call is in progress,           *)
(* activeRequests is the number of requests admitted and not yet released. *)
(***************************************************************************)
C3_CountIsInFlight ==
  InputGateOpen => activeRequests = Cardinality(InFlight)

(***************************************************************************)
(* C3 (Spec), amended.  activeRequests never exceeds the number of         *)
(* requests admitted and not yet released, and whenever no gate call is in *)
(* progress it equals that number unless /reset or a restart zeroed the    *)
(* counter under requests in flight, some of which are still in flight.    *)
(***************************************************************************)
C3_CountIsInFlightUnlessZeroed ==
  /\ activeRequests <= Cardinality(InFlight)
  /\ (InputGateOpen /\ ~skewed) => activeRequests = Cardinality(InFlight)

C3_Witness ==
  /\ InputGateOpen /\ ~skewed
  /\ activeRequests = 2
  /\ \E r \in Reqs : req[r].pc = "handler"
  /\ \E r \in Reqs : req[r].pc = "releasing"

(***************************************************************************)
(* C4 (SpecGate).  As claimed: with no windDown, reset or restart, after N *)
(* tryAcquire and M release calls with M <= N, activeRequests is N - M.    *)
(***************************************************************************)
C4_CountIsDifference ==
  (noDrain /\ nRel <= nAcq) => activeRequests = nAcq - nRel

(***************************************************************************)
(* C4 (SpecGate), amended.  With no windDown, reset or restart, after N    *)
(* tryAcquire and M release calls, activeRequests is N - M provided every  *)
(* release was called when more acquires than releases had been called.    *)
(***************************************************************************)
C4_CountIsDifferenceWhenMatched ==
  (noDrain /\ ~unmatched) => (nRel <= nAcq /\ activeRequests = nAcq - nRel)

C4_Witness ==
  /\ noDrain /\ ~unmatched
  /\ nAcq = 3 /\ nRel = 2
  /\ activeRequests = 1

(***************************************************************************)
(* C5 (SpecGate).  activeRequests is never negative; each release leaves   *)
(* one less, or 0 when it was 0, and returns what it left.                 *)
(***************************************************************************)
C5_ReleaseStep ==
  nRel' = nRel + 1 =>
    /\ activeRequests' = (IF activeRequests = 0 THEN 0 ELSE activeRequests - 1)
    /\ ret'.op = "release"
    /\ ret'.activeRequests = activeRequests'

C5_NeverNegative == [](activeRequests >= 0) /\ [][C5_ReleaseStep]_vars

C5_Witness ==
  /\ ret.op = "release" /\ ret.activeRequests = 0
  /\ nRel > nAcq
  /\ activeRequests = 0

(***************************************************************************)
(* C6 (SpecGate).  The first getState after a restart reports              *)
(* activeRequests = 0 whatever count the restart dropped, and refusing     *)
(* exactly when true is stored, which is the case when a windDown          *)
(* completed and reset was not called since.                               *)
(***************************************************************************)
C6_AfterRestart ==
  (fresh /\ ret.op = "getState") =>
    /\ ret.activeRequests = 0
    /\ ret.refusing = storage
    /\ drained => ret.refusing

C6_Witness ==
  /\ fresh /\ ret.op = "getState"
  /\ lost > 0
  /\ ret.refusing /\ ret.activeRequests = 0

(***************************************************************************)
(* C7 (Spec).  A tool request that arrives while the gate is Draining is   *)
(* refused and answered 503 by the next step of the middleware: none of    *)
(* the route's checks runs, no context is built, release is not called,    *)
(* and neither the refusal nor the answer changes activeRequests.          *)
(***************************************************************************)
C7_Refused ==
  \A r \in Reqs :
    (req[r].pc # "idle" /\ ~req[r].allowed) =>
      /\ req[r].pc \in {"acquired", "done"}
      /\ req[r].trace = <<"tryAcquire">>
      /\ req[r].ctx = NoCtx
      /\ req[r].userConfig = EmptyObj /\ req[r].refreshToken = NoToken
      /\ req[r].relCalls = 0
      /\ req[r].pc = "done" => req[r].resp = Resp(503, MsgWindingDown, "pipeline")

C7_RefusalStep ==
  \A r \in Reqs :
    /\ (req[r].pc = "idle" /\ req'[r].pc # "idle" /\ refuseRequests)
         => (~req'[r].allowed /\ activeRequests' = activeRequests)
    /\ (req[r].pc = "acquired" /\ ~req[r].allowed /\ req'[r].pc # "acquired")
         => (req'[r].pc = "done" /\ activeRequests' = activeRequests)

C7_DrainingAnswers503 == [](C7_Refused) /\ [][C7_RefusalStep]_vars

C7_Witness ==
  \E r \in Reqs : \E q \in Reqs \ {r} :
    /\ req[r].pc = "done" /\ req[r].resp.status = 503
    /\ req[r].in = Input(CfgAbsent, TokAbsent, BodyX)
    /\ req[q].pc = "handler"
    /\ activeRequests = 1

(***************************************************************************)
(* C8 (SpecPipe).  The checks run in the order config decode, config       *)
(* validation, token decode, token presence, body parse, body validation:  *)
(* the steps a request went through are in that order, a 400 names the     *)
(* first check the request fails, and no later check has run.  So a        *)
(* malformed config header is answered before the body is parsed, and a    *)
(* malformed body behind acceptable headers is answered as a body error.   *)
(***************************************************************************)
C8_FixedOrder ==
  \A r \in Reqs :
    /\ \A i, j \in DOMAIN req[r].trace :
         i < j => Position(req[r].trace[i]) < Position(req[r].trace[j])
    /\ (Answered(r) /\ FirstFailure(req[r].in) # 0) =>
         /\ req[r].resp =
              Resp(400, MsgOf(FixedOrder[FirstFailure(req[r].in)]), "pipeline")
         /\ \A j \in DOMAIN FixedOrder :
              j > FirstFailure(req[r].in) => FixedOrder[j] \notin Range(req[r].trace)
    /\ (Answered(r) /\ Fails("configDecode", req[r].in)) =>
         /\ req[r].resp.text = MsgConfigHeader
         /\ "bodyParse" \notin Range(req[r].trace)

C8_Witness ==
  \E r \in Reqs :
    /\ req[r].pc = "done"
    /\ req[r].in.cfgH = CfgNotJson /\ req[r].in.body = BodyNotJson
    /\ req[r].resp = Resp(400, MsgConfigHeader, "pipeline")
    /\ "bodyParse" \notin Range(req[r].trace)

(***************************************************************************)
(* C9 (SpecPipe).  The handler is called only for a request that fails     *)
(* none of the checks; a request that fails any of them (a config header   *)
(* that does not decode, a config that does not validate, among them no    *)
(* config header on a server that declares fields, a token header that     *)
(* does not decode or is missing where required, a body that does not      *)
(* parse or validate) is answered 400 by the pipeline, never 500, and no   *)
(* context is built for it.                                                *)
(***************************************************************************)
C9_HandlerOnlyAfterChecks ==
  \A r \in Reqs :
    /\ (req[r].pc = "handler" \/ "handler" \in Range(req[r].trace) \/ req[r].ctx # NoCtx)
         => \A i \in DOMAIN FixedOrder : ~Fails(FixedOrder[i], req[r].in)
    /\ \A i \in DOMAIN FixedOrder :
         (Answered(r) /\ Fails(FixedOrder[i], req[r].in)) =>
           /\ req[r].resp.status = 400 /\ req[r].resp.by = "pipeline"
           /\ "handler" \notin Range(req[r].trace)
           /\ req[r].ctx = NoCtx
           /\ ~req[r].thrown.some

C9_Witness ==
  \E r \in Reqs :
    /\ server.userConfig # {}
    /\ req[r].in.cfgH = CfgAbsent /\ req[r].in.body = BodyX
    /\ req[r].pc = "done"
    /\ req[r].resp = Resp(400, MsgConfigInvalid, "pipeline")
    /\ "handler" \notin Range(req[r].trace)

(***************************************************************************)
(* C10 (SpecPipe).  When context assembly or the handler throws, the       *)
(* request is answered 500 with the message of the error (the string of    *)
(* a thrown value that is no Error), the slot is released once, and after  *)
(* such a request has left, the next ones are admitted, answered by their  *)
(* handler and released as before.                                         *)
(***************************************************************************)
C10_ThrowIs500 ==
  /\ (after500 /\ \A q \in Reqs : req[q].pc = "idle") => activeRequests = 0
  /\ \A r \in Reqs :
    /\ req[r].thrown.some =>
         /\ req[r].pc \in {"releasing", "done"}
         /\ req[r].resp =
              Resp(500, IF req[r].thrown.e.isError THEN req[r].thrown.e.message
                        ELSE req[r].thrown.e.value, "pipeline")
         /\ req[r].pc = "done" => req[r].relCalls = 1
    /\ (after500 /\ req[r].pc = "done" /\ ~req[r].thrown.some
          /\ "handler" \in Range(req[r].trace)) =>
         /\ req[r].resp.by = "handler" /\ req[r].resp.status \in {200, 401}
         /\ req[r].relCalls = 1

C10_Witness ==
  \E r \in Reqs :
    /\ after500
    /\ req[r].pc = "done" /\ req[r].resp = ResJson("handler")
    /\ req[r].relCalls = 1
    /\ activeRequests = 0 /\ ~skewed

(***************************************************************************)
(* C11 (SpecPipe).  On a server that declares oauthConfig, a tool call     *)
(* with no token header is answered 400 (with the message that the header  *)
(* is required when its config is acceptable) and the handler is not       *)
(* called; a call that fails no check and carries a base64 token header    *)
(* reaches the handler, unless reading the environment throws, with the    *)
(* decoded header as its token.                                            *)
(***************************************************************************)
NoStepFails (in) == \A i \in DOMAIN FixedOrder : ~Fails(FixedOrder[i], in)

C11_TokenRequired ==
  \A r \in Reqs :
    server.oauthConfig =>
      /\ (Answered(r) /\ req[r].in.tokH.kind = "absent") =>
           /\ req[r].resp.status = 400
           /\ "handler" \notin Range(req[r].trace)
           /\ (~Fails("configDecode", req[r].in) /\ ~Fails("configValidate", req[r].in))
                => req[r].resp.text = MsgTokenRequired
      /\ (Answered(r) /\ req[r].in.tokH.kind = "b64" /\ NoStepFails(req[r].in)
            /\ ~req[r].thrown.some) => "handler" \in Range(req[r].trace)
      /\ (req[r].in.tokH.kind = "b64" /\ "handler" \in Range(req[r].trace)) =>
           /\ req[r].ctx.hasToken
           /\ req[r].ctx.token = req[r].in.tokH.text

C11_Witness ==
  \E r \in Reqs :
    /\ server.oauthConfig /\ server.userConfig = {}
    /\ req[r].in = Input(CfgAbsent, TokAbsent, BodyX)
    /\ req[r].pc = "done"
    /\ req[r].resp = Resp(400, MsgTokenRequired, "pipeline")
    /\ "handler" \notin Range(req[r].trace)

(***************************************************************************)
(* C12 (SpecDrain).  While the gate is Draining (true is stored, and the   *)
(* loaded actor refuses), which lasts from a completed windDown until      *)
(* reset is called, no step increases activeRequests; and when every       *)
(* request in flight goes on (its handler returns, its release is          *)
(* delivered), a Draining gate leads to activeRequests = 0, where it then  *)
(* stays for as long as the gate is Draining.                              *)
(***************************************************************************)
Draining == storage /\ (actor = "ready" => refuseRequests)

C12_NoIncrease == Draining => activeRequests' <= activeRequests

C12_DrainsToZero ==
  /\ [][C12_NoIncrease]_vars
  /\ Draining ~> (activeRequests = 0)

C12_Witness ==
  \E r \in Reqs : \E q \in Reqs \ {r} :
    /\ Draining /\ InputGateOpen
    /\ activeRequests = 1
    /\ req[r].pc = "handler" /\ req[r].allowed
    /\ req[q].pc = "done" /\ req[q].resp.status = 503

(***************************************************************************)
(* C13 (SpecGate).  A reset that returns leaves activeRequests = 0, the    *)
(* gate Accepting and nothing stored, whatever the state before; a         *)
(* tryAcquire that follows it is allowed and returns activeRequests = 1;   *)
(* and until windDown or reset is called again nothing is stored and the   *)
(* loaded actor accepts, also after a restart.                             *)
(***************************************************************************)
C13_AfterReset ==
  wasReset =>
    /\ ~storage
    /\ actor = "ready" => ~refuseRequests
    /\ ret.op = "reset" => (activeRequests = 0 /\ InputGateOpen)
    /\ ret.op = "tryAcquire" => ret.allowed
    /\ ret.op = "getState" => ~ret.refusing

C13_NextAcquire ==
  (ret.op = "reset" /\ nAcq' = nAcq + 1) =>
    (ret'.op = "tryAcquire" /\ ret'.allowed /\ ret'.activeRequests = 1)

C13_ResetForcesAccepting == [](C13_AfterReset) /\ [][C13_NextAcquire]_vars

C13_Witness ==
  /\ wasReset /\ fresh
  /\ lost > 0
  /\ ret.op = "getState" /\ ~ret.refusing /\ ret.activeRequests = 0

(***************************************************************************)
(* C14 (SpecGate).  windDown sets the gate Draining whatever its state,    *)
(* leaves activeRequests as it was and, when its write is done, has true   *)
(* stored and returns that count; a windDown called when one has already   *)
(* completed changes neither the count, nor the flag, nor what is stored,  *)
(* at its call and at its completion.                                      *)
(***************************************************************************)
C14_WindDownStep ==
  /\ (gateOp = "idle" /\ gateOp' = "windDown") =>
       /\ refuseRequests'
       /\ activeRequests' = activeRequests /\ storage' = storage
  /\ (gateOp = "windDown" /\ ret'.op = "windDown") =>
       /\ refuseRequests' /\ storage'
       /\ activeRequests' = activeRequests
       /\ ret'.activeRequests = activeRequests
  /\ (drained /\ (gateOp' = "windDown" \/ gateOp = "windDown")) =>
       /\ <<activeRequests', refuseRequests', storage'>>
            = <<activeRequests, refuseRequests, storage>>
       /\ refuseRequests /\ storage

C14_WindDownIdempotent == [][C14_WindDownStep]_vars

C14_Witness ==
  /\ drained
  /\ gateOp = "windDown"
  /\ refuseRequests /\ storage
  /\ activeRequests = 2

(***************************************************************************)
(* C15 (SpecGate).  getState, and a tryAcquire called on a Draining gate,  *)
(* change neither activeRequests, nor the flag in memory, nor what is      *)
(* stored, and return the count as it is (tryAcquire with allowed =        *)
(* false); so after three allowed acquires and a windDown the fourth       *)
(* tryAcquire returns allowed = false and activeRequests = 3.              *)
(***************************************************************************)
C15_ReadOnlyStep ==
  /\ ret'.op = "getState" =>
       /\ <<activeRequests', refuseRequests', storage'>>
            = <<activeRequests, refuseRequests, storage>>
       /\ ret'.activeRequests = activeRequests
       /\ ret'.refusing = refuseRequests
  /\ (nAcq' = nAcq + 1 /\ refuseRequests) =>
       /\ <<activeRequests', refuseRequests', storage'>>
            = <<activeRequests, refuseRequests, storage>>
       /\ ~ret'.allowed
       /\ ret'.activeRequests = activeRequests
  /\ (nAcq = 3 /\ nRel = 0 /\ activeRequests = 3 /\ drained /\ nAcq' = 4) =>
       /\ ret'.op = "tryAcquire" /\ ~ret'.allowed /\ ret'.activeRequests = 3
       /\ activeRequests' = 3

C15_ReadsDoNotMutate == [][C15_ReadOnlyStep]_vars

C15_Witness ==
  /\ nAcq = 4 /\ nRel = 0
  /\ drained
  /\ ret.op = "tryAcquire" /\ ~ret.allowed /\ ret.activeRequests = 3
  /\ activeRequests = 3 /\ refuseRequests /\ storage

(***************************************************************************)
(* C16 (SpecPipe).  The middleware that calls tryAcquire and release is    *)
(* not run for /details, /active-requests, /wind-down and /reset: a        *)
(* request to one of them is never answered 503, changes no tool request,  *)
(* changes activeRequests only by /reset setting it to 0, and can be       *)
(* served whether the gate is Accepting or Draining (/details at any       *)
(* time, the other three whenever the gate takes calls).                   *)
(***************************************************************************)
BuiltInPaths == {DetailsPath, ActiveRequestsPath, WindDownPath, ResetPath}

C16_Answered ==
  /\ \A path \in BuiltInPaths : ~Guarded(path)
  /\ adminResp.status \in {0, 200, 500}
  /\ adminResp.route \in {"/details", "/active-requests"} => adminResp.status # 0
  /\ \E envOk \in BOOLEAN : ENABLED DetailsRoute(envOk)
  /\ InputGateOpen =>
       (ENABLED ActiveRequestsRoute /\ ENABLED WindDownRoute /\ ENABLED ResetRoute)

C16_RouteStep ==
  (adminResp' # NoAdmin /\ adminResp' # adminResp) =>
    /\ req' = req
    /\ activeRequests' = (IF gateOp' = "reset" THEN 0 ELSE activeRequests)

C16_NoAdmission == [](C16_Answered) /\ [][C16_RouteStep]_vars

C16_Witness ==
  /\ refuseRequests /\ storage /\ actor = "ready"
  /\ adminResp = Admin("/details", 200, "details", 0, FALSE)
  /\ activeRequests = 1
  /\ req[1].pc = "handler"

(***************************************************************************)
(* C17 (SpecPipe).  When the storage write inside windDown or reset is     *)
(* rejected, /wind-down or /reset answers 500 and not its success message; *)
(* the success message of /wind-down is given only with true stored, that  *)
(* of /reset only with nothing stored.                                     *)
(***************************************************************************)
C17_WriteFailureIs500 ==
  /\ adminResp.failed =>
       /\ adminResp.route \in {"/wind-down", "/reset"}
       /\ adminResp.status = 500
       /\ adminResp.text # SuccessText(adminResp.route)
  /\ (adminResp.route = "/wind-down" /\ adminResp.status = 200) =>
       (storage /\ ~adminResp.failed)
  /\ (adminResp.route = "/reset" /\ adminResp.status = 200) =>
       (~storage /\ ~adminResp.failed)

C17_Witness ==
  /\ adminResp.failed
  /\ adminResp.route = "/reset" /\ adminResp.status = 500
  /\ storage /\ ~refuseRequests /\ InputGateOpen

(***************************************************************************)
(* C18 (SpecPipe).  As claimed: on a server that declares no userConfig    *)
(* fields the handler's ctx.config is the empty object, whatever the       *)
(* config header of the request holds.                                     *)
(***************************************************************************)
C18_EmptyConfigWhenUndeclared ==
  \A r \in Reqs :
    (server.userConfig = {} /\ "handler" \in Range(req[r].trace)) =>
      req[r].ctx.config = EmptyObj

(***************************************************************************)
(* The route as a function of the request, on an environment that reads    *)
(***************************************************************************)
TokenForms == {TokAbsent, TokEmpty, TokGarbage, TokA, TokB}

RunsHandler (in) ==
  LET h == ConfigDecodeStep(in.cfgH, in.tokH, <<>>)
  IN  /\ h.ok
      /\ BodySteps(in.body, h.userConfig, h.refreshToken, TRUE, h.trace).next = "handler"

\* the status the route answers by itself, 0 when the handler answers
PipelineStatus (in) ==
  LET h == ConfigDecodeStep(in.cfgH, in.tokH, <<>>)
      t == BodySteps(in.body, h.userConfig, h.refreshToken, TRUE, h.trace)
  IN  IF ~h.ok THEN h.resp.status
      ELSE IF t.next = "handler" THEN 0 ELSE t.resp.status

(***************************************************************************)
(* C19 (SpecPipe).  As claimed: on a server that declares no oauthConfig,  *)
(* whether the handler runs, and the status the route answers when it      *)
(* does not, are those of the same request under any other token header,   *)
(* absent, empty, base64 or not base64.                                    *)
(***************************************************************************)
C19_TokenHeaderIgnoredWithoutOauth ==
  \A r \in Reqs :
    (~server.oauthConfig /\ Answered(r)) =>
      \A tokH \in TokenForms :
        /\ "handler" \in Range(req[r].trace)
             <=> RunsHandler([req[r].in EXCEPT !.tokH = tokH])
        /\ "handler" \notin Range(req[r].trace)
             => req[r].resp.status = PipelineStatus([req[r].in EXCEPT !.tokH = tokH])

(***************************************************************************)
(* C20 (SpecPipe).  The context a handler is called with has token and     *)
(* oauth exactly when the server declares oauthConfig; the token it has is *)
(* the text that the base64 token header of the request decodes to, which  *)
(* is not empty.                                                           *)
(***************************************************************************)
C20_TokenIffOauth ==
  \A r \in Reqs :
    "handler" \in Range(req[r].trace) =>
      /\ req[r].ctx.hasToken <=> server.oauthConfig
      /\ req[r].ctx.hasOauth <=> server.oauthConfig
      /\ req[r].ctx.hasToken =>
           /\ req[r].in.tokH.kind = "b64"
           /\ req[r].ctx.token = req[r].in.tokH.text
           /\ req[r].ctx.token # ""
      /\ ~req[r].ctx.hasToken => req[r].ctx.token = ""

C20_Witness ==
  \E r \in Reqs :
    /\ ~server.oauthConfig
    /\ req[r].in.tokH = TokA
    /\ req[r].pc = "handler"
    /\ ~req[r].ctx.hasToken /\ ~req[r].ctx.hasOauth

(***************************************************************************)
(* C21 (SpecBuild).  As claimed: after any sequence of registerTool calls  *)
(* no name is twice in the registry, because a call with a name that is    *)
(* registered already throws and registers nothing.                        *)
(***************************************************************************)
C21_ToolNamesUnique ==
  /\ \A i, j \in DOMAIN server.tools :
       i # j => server.tools[i] # server.tools[j]
  /\ ret.op = "registerTool" =>
       \A i \in 1 .. (Len(server.tools) - 1) :
         server.tools[i] # server.tools[Len(server.tools)]

(***************************************************************************)
(* C22 (SpecPipe).  What the middleware and the route answer on their own  *)
(* is 400, 500 or 503; a 401 on a tool route is the response its handler   *)
(* returned, for a request that passed every check and whose handler did   *)
(* not throw.                                                              *)
(***************************************************************************)
C22_No401FromPipeline ==
  \A r \in Reqs :
    /\ req[r].resp.by = "pipeline" => req[r].resp.status \in {400, 500, 503}
    /\ req[r].resp.status = 401 =>
         /\ req[r].resp = ResUnauthorized("handler")
         /\ "handler" \in Range(req[r].trace)
         /\ NoStepFails(req[r].in)
         /\ ~req[r].thrown.some
    /\ req[r].resp.status \in {0, 200, 400, 401, 500, 503}

C22_Witness ==
  \E r \in Reqs :
    /\ req[r].pc = "done"
    /\ req[r].resp.status = 401 /\ req[r].resp.by = "handler"
    /\ server.oauthConfig /\ req[r].in.tokH = TokA

(***************************************************************************)
(* servers/google-maps v1.0.0: six tools on a server that declares only    *)
(* requiredEnv.  Four call the client library (mapsClient), two call the   *)
(* Routes API with fetch.  What the downstream call did is the input.      *)
(***************************************************************************)
ClientTools == {"search_places", "search_nearby", "get_place_details", "maps_geocode"}
RoutesTools == {"maps_distance_matrix", "maps_directions"}
MapsTools == ClientTools \cup RoutesTools

MapsServer ==
  [userConfig |-> {}, oauthConfig |-> FALSE,
   tools |-> <<"search_places", "search_nearby", "get_place_details",
               "maps_geocode", "maps_distance_matrix", "maps_directions">>]

\* statuses of the Routes API answers that are tried; 403 and 503 are not ok
HttpStatuses == {200, 403, 503}

NoDown ==
  [kind |-> "none", status |-> "", apiMsg |-> "", message |-> "",
   results |-> "undefined", httpStatus |-> 0, body |-> ""]

\* mapsClient.x(...) rejects (e.response.data.error_message, e.message) or
\* resolves with response.data (status, error_message, results / result)
ClientDowns ==
  {[NoDown EXCEPT !.kind = "throw", !.apiMsg = a, !.message = m] :
     a \in {"", "API key invalid"}, m \in {"", "Network Error"}}
  \cup
  {[NoDown EXCEPT !.kind = "data", !.status = s, !.apiMsg = a, !.results = n] :
     s \in {"OK", "ZERO_RESULTS", "REQUEST_DENIED"}, a \in {"", "denied"},
     n \in {"undefined", "empty", "one"}}

\* fetch(...) rejects (e.message) or resolves with a status and a body
FetchDowns ==
  {[NoDown EXCEPT !.kind = "throw", !.message = m] : m \in {"", "fetch failed"}}
  \cup
  {[NoDown EXCEPT !.kind = "http", !.httpStatus = s, !.body = b] :
     s \in HttpStatuses,
     b \in {"notJson", "null", "errorJson", "emptyObj", "noRoutes", "oneRoute",
            "noElements", "oneElement"}}

DownsOf (tool) == IF tool \in ClientTools THEN ClientDowns ELSE FetchDowns

\* what is thrown inside the try by the handler's own statements
TypeError == [NoDown EXCEPT !.kind = "throw", !.message = "TypeError"]
SyntaxError == [NoDown EXCEPT !.kind = "throw", !.message = "SyntaxError"]

\* catch (e): e?.response?.data?.error_message || e?.message || "Unknown error"
ClientCatch (e) ==
  ResError(IF e.apiMsg # "" THEN e.apiMsg
           ELSE IF e.message # "" THEN e.message ELSE "Unknown error", "handler")

\* catch (e) of the Routes tools: e?.message || "Unknown error"
FetchCatch (e) ==
  ResError(IF e.message # "" THEN e.message ELSE "Unknown error", "handler")

StatusNotOk_Never (down) == FALSE

\* response.data.status !== Status.OK
StatusNotOk (down) == down.status # "OK"

\* ctx.res.error(response.data.error_message || String(response.data.status))
StatusError (down) ==
  ResError(IF down.apiMsg # "" THEN down.apiMsg ELSE down.status, "handler")

search_places (down) ==
  IF down.kind = "throw" THEN ClientCatch(down)
  ELSE IF StatusNotOk(down) THEN StatusError(down)
  ELSE ResJson("handler")          \* (response.data.results || [])

search_nearby (down) ==
  IF down.kind = "throw" THEN ClientCatch(down)
  ELSE IF StatusNotOk(down) THEN StatusError(down)
  ELSE ResJson("handler")

get_place_details (down) ==
  IF down.kind = "throw" THEN ClientCatch(down)
  ELSE IF StatusNotOk(down) THEN StatusError(down)
  ELSE IF down.results = "undefined" THEN ClientCatch(TypeError)   \* data.place_id
  ELSE ResJson("handler")

maps_geocode (down) ==
  IF down.kind = "throw" THEN ClientCatch(down)
  ELSE IF StatusNotOk(down) THEN StatusError(down)
  ELSE IF down.results = "undefined" THEN ClientCatch(TypeError)   \* results.length
  ELSE IF down.results = "empty" THEN ResError("No results found", "handler")
  ELSE ResJson("handler")

\* response.ok
ResponseOk (down) == down.httpStatus >= 200 /\ down.httpStatus <= 299

\* `Routes API error: ${response.status}`
RoutesApiError (status) ==
  IF status = 403 THEN "Routes API error: 403"
  ELSE IF status = 503 THEN "Routes API error: 503"
  ELSE "Routes API error: 200"

\* err = await response.json().catch(() => ({}));
\* ctx.res.error(err?.error?.message || `Routes API error: ...`)
HttpError (down) ==
  ResError(IF down.body = "errorJson" THEN "quota exceeded"
           ELSE RoutesApiError(down.httpStatus), "handler")

maps_distance_matrix (down) ==
  IF down.kind = "throw" THEN FetchCatch(down)
  ELSE IF ~ResponseOk(down) THEN HttpError(down)
  ELSE IF down.body = "notJson" THEN FetchCatch(SyntaxError)
  ELSE IF down.body \in {"noElements", "oneElement"} THEN ResJson("handler")
  ELSE FetchCatch(TypeError)       \* for (const el of elements)

maps_directions (down) ==
  IF down.kind = "throw" THEN FetchCatch(down)
  ELSE IF ~ResponseOk(down) THEN HttpError(down)
  ELSE IF down.body = "notJson" THEN FetchCatch(SyntaxError)
  ELSE IF down.body = "null" THEN FetchCatch(TypeError)            \* data.routes
  ELSE IF down.body # "oneRoute" THEN ResError("No routes found", "handler")
  ELSE ResJson("handler")

MapsHandler (tool, down) ==
  CASE tool = "search_places" -> search_places(down)
    [] tool = "search_nearby" -> search_nearby(down)
    [] tool = "get_place_details" -> get_place_details(down)
    [] tool = "maps_geocode" -> maps_geocode(down)
    [] tool = "maps_distance_matrix" -> maps_distance_matrix(down)
    [] tool = "maps_directions" -> maps_directions(down)

MapsIdle == [pc |-> "idle", tool |-> "", down |-> NoDown, resp |-> NoResp]

notMapsVars == <<gateVars, histVars, callerVars, server, adminResp, skewed, after500>>

\* the handler of a tool is called and awaits its downstream call
MapsCall (r, tool, down) ==
  /\ req[r].pc = "idle"
  /\ req' = [req EXCEPT ![r] = [pc |-> "handler", tool |-> tool, down |-> down,
                                resp |-> NoResp]]
  /\ UNCHANGED notMapsVars

\* the downstream call has settled and the handler returns its response
MapsReturns (r) ==
  /\ req[r].pc = "handler"
  /\ req' = [req EXCEPT ![r].pc = "done",
                        ![r].resp = MapsHandler(req[r].tool, req[r].down)]
  /\ UNCHANGED notMapsVars

MapsForget (r) ==
  /\ req[r].pc = "done"
  /\ req' = [req EXCEPT ![r] = MapsIdle]
  /\ UNCHANGED notMapsVars

\* the downstream call failed, in one of the ways a tool can see
DownstreamFailed (tool, down) ==
  \/ down.kind = "throw"
  \/ down.kind = "data" /\ down.status # "OK"
  \/ down.kind = "http" /\ ~(down.httpStatus \in 200 .. 299)
  \/ tool = "maps_geocode" /\ down.kind = "data" /\ down.results = "empty"
  \/ tool = "maps_directions" /\ down.kind = "http"
       /\ down.body \in {"emptyObj", "noRoutes"}

(***************************************************************************)
(* C23 (SpecMaps).  Whatever google-maps tool is called, when its          *)
(* downstream call failed (the client library or fetch threw, the API      *)
(* reported a status other than OK or an HTTP response that is not ok,     *)
(* geocode had no results, directions had no routes) the response of the   *)
(* tool has a status of at least 400, and is never 200.                    *)
(***************************************************************************)
C23_DownstreamFailureIsError ==
  \A r \in Reqs :
    (req[r].pc = "done" /\ DownstreamFailed(req[r].tool, req[r].down)) =>
      /\ req[r].resp.status >= 400
      /\ req[r].resp.status # 200
      /\ req[r].resp.by = "handler"

C23_Witness ==
  \E r \in Reqs :
    /\ req[r].pc = "done"
    /\ req[r].tool = "search_places"
    /\ req[r].down.kind = "data" /\ req[r].down.status = "ZERO_RESULTS"
    /\ req[r].resp.status = 500

(***************************************************************************)
(* C24 (Spec).  The tool requests of a deployment call one gate, and a     *)
(* call runs to its end before the next one starts: whatever requests are  *)
(* under way, a tryAcquire that is allowed raises activeRequests by        *)
(* exactly one and returns the raised count, one that is refused leaves    *)
(* it, and a release lowers it by exactly one unless it is 0; no such step *)
(* touches another request.  So k allowed calls in a row raise the count   *)
(* by k and return k counts that differ.                                   *)
(***************************************************************************)
C24_AcquireStep ==
  \A r \in Reqs :
    (req[r].pc = "idle" /\ req'[r].pc = "acquired") =>
      /\ req'[r].allowed = ~refuseRequests
      /\ req'[r].allowed =>
           /\ activeRequests' = activeRequests + 1
           /\ AcquireResult.activeRequests = activeRequests'
      /\ ~req'[r].allowed => activeRequests' = activeRequests
      /\ \A q \in Reqs \ {r} : req'[q] = req[q]

C24_ReleaseStep ==
  \A r \in Reqs :
    (req[r].pc = "releasing" /\ req'[r].relCalls = req[r].relCalls + 1) =>
      /\ activeRequests' = (IF activeRequests > 0 THEN activeRequests - 1 ELSE 0)
      /\ \A q \in Reqs \ {r} : req'[q] = req[q]

C24_GateCallsSerialized == [][C24_AcquireStep /\ C24_ReleaseStep]_vars

C24_Witness ==
  /\ \A r \in Reqs : r \in InFlight
  /\ activeRequests = Cardinality(Reqs)
  /\ ~skewed

(***************************************************************************)
(* C25 (SpecGate).  From the start of an actor until its constructor has   *)
(* loaded the flag, the only thing that happens is that load: no call of   *)
(* tryAcquire, release, windDown, getState or reset returns, counts or     *)
(* writes anything.  So the first calls that reach a started actor see the *)
(* stored flag, and a tryAcquire on an actor that started with true stored *)
(* is refused.                                                             *)
(***************************************************************************)
C25_LoadingStep ==
  actor = "loading" =>
    /\ UNCHANGED <<ret, nAcq, nRel, activeRequests, storage, gateOp>>
    /\ actor' = "ready"
    /\ refuseRequests' = storage

C25_FreshAcquire ==
  (nAcq' = nAcq + 1 /\ storage /\ (fresh \/ actor = "loading")) =>
    /\ ret'.op = "tryAcquire"
    /\ ~ret'.allowed
    /\ activeRequests' = activeRequests

C25_NoCallBeforeLoad == [][C25_LoadingStep /\ C25_FreshAcquire]_vars

C25_Witness ==
  /\ fresh /\ storage
  /\ ret.op = "tryAcquire" /\ ~ret.allowed
  /\ activeRequests = 0

(***************************************************************************)
(* C26 (Spec).  However two requests interleave, the context that the      *)
(* handler of a request is called with is made of that request alone: its  *)
(* params are the validated body of the request, its config the validated  *)
(* config header of the request, its credential the decoded token header   *)
(* of the request.                                                         *)
(***************************************************************************)
C26_OwnContext ==
  \A r \in Reqs :
    "handler" \in Range(req[r].trace) =>
      /\ req[r].ctx.req = SafeParseData(ToolSchema, req[r].in.body.val)
      /\ req[r].ctx.config = SafeParseData(server.userConfig, req[r].in.cfgH.text.val)
      /\ req[r].ctx.hasToken /\ req[r].ctx.token = req[r].in.tokH.text
      /\ \A q \in Reqs :
           ("handler" \in Range(req[q].trace) /\ req[q].ctx = req[r].ctx)
             => req[q].in = req[r].in

C26_Witness ==
  /\ req[1].pc = "handler" /\ req[2].pc = "handler"
  /\ req[1].in = Input(CfgLocaleExtra, TokB, BodyY)
  /\ req[2].in = Input(CfgLocale, TokA, BodyX)
  /\ req[1].ctx.token = "refresh-B" /\ req[2].ctx.token = "refresh-A"
  /\ req[1].ctx.config # req[2].ctx.config
  /\ req[1].ctx.req # req[2].ctx.req

(***************************************************************************)
(* C27 (Spec).  Whenever no tool request is between its allowed tryAcquire *)
(* and its release, activeRequests is 0: whatever /wind-down, /reset and   *)
(* restarts happened while requests were served, an idle system never      *)
(* shows a count left over.                                                *)
(***************************************************************************)
C27_QuiescentIsZero ==
  (\A r \in Reqs : ~(req[r].allowed /\ req[r].pc # "idle" /\ req[r].relCalls = 0))
    => activeRequests = 0

C27_Witness ==
  /\ InFlight = {}
  /\ activeRequests = 0
  /\ storage /\ refuseRequests
  /\ \A r \in Reqs : req[r].pc = "done" /\ req[r].allowed /\ req[r].relCalls = 1

(***************************************************************************)
(* C28 (SpecGate).  As claimed: whenever the actor is started and no gate  *)
(* operation is in progress, the flag in memory is true exactly when true  *)
(* is stored, also after a windDown or a reset whose write failed and      *)
(* after a restart.                                                        *)
(***************************************************************************)
C28_MemoryFlagIsDurableFlag ==
  (actor = "ready" /\ gateOp = "idle") => (refuseRequests <=> storage)

(***************************************************************************)
(* Requests by path and method: the middleware of "/tools/*" is run for    *)
(* every method, the route of a tool only for POST /tools/<name>, and a    *)
(* request that no route answers gets the 404 of the framework.            *)
(***************************************************************************)
Methods == {"POST", "GET", "DELETE"}

\* paths under /tools/: a registered tool, no such tool, a longer path, no name
ToolPaths ==
  {<<"tools", "echo">>, <<"tools", "nope">>, <<"tools", "echo", "extra">>,
   <<"tools", "">>}

\* a path that no route and no middleware is registered for
OtherPaths == {<<"nope">>}

PathInput (path, method) ==
  [cfgH |-> CfgLocale, tokH |-> TokA, body |-> BodyX,
   path |-> path, method |-> method]

\* line 371: app.post(`/tools/${toolName}`, ...) of a registered tool
RouteMatches (in) ==
  /\ in.method = "POST"
  /\ Len(in.path) = 2 /\ in.path[1] = "tools"
  /\ \E i \in DOMAIN server.tools : server.tools[i] = in.path[2]

\* the answer of the framework when next() finds no route
NotFoundResponse == Resp(404, "404 Not Found", "hono")

\* a request arrives: the middleware, where it is run, calls tryAcquire
PathRequest (r, in) ==
  /\ req[r].pc = "idle"
  /\ IF Guarded(in.path)
       THEN /\ tryAcquire
            /\ req' = [req EXCEPT ![r] =
                 [IdleReq EXCEPT !.pc = "acquired", !.in = in,
                                 !.allowed = AcquireResult.allowed,
                                 !.trace = <<"tryAcquire">>]]
       ELSE /\ UNCHANGED gateVars
            /\ req' = [req EXCEPT ![r] = [IdleReq EXCEPT !.pc = "routing", !.in = in]]
  /\ adminResp' = NoAdmin
  /\ UNCHANGED <<histVars, callerVars, server, skewed, after500>>

\* next() of an admitted request, or the dispatch of one that met no
\* middleware, finds no route: 404, through the finally block if there is one
NotFound (r) ==
  /\ \/ req[r].pc = "acquired" /\ req[r].allowed
     \/ req[r].pc = "routing"
  /\ ~RouteMatches(req[r].in)
  /\ req' = [req EXCEPT ![r].pc = IF req[r].pc = "acquired"
                                    THEN AfterRoute(NotFoundResponse) ELSE "done",
                        ![r].resp = NotFoundResponse]
  /\ adminResp' = NoAdmin
  /\ UNCHANGED <<gateVars, histVars, callerVars, server, skewed, after500>>

\* next() of an admitted request enters the route of the tool
MatchedRouteHeaders (r) ==
  /\ RouteHeaders(r)
  /\ RouteMatches(req[r].in)

UnderTools (path) == Len(path) >= 2 /\ path[1] = "tools"

(***************************************************************************)
(* C29 (SpecPaths).  Every request whose path is under /tools/ meets the   *)
(* admission middleware, whatever its method and whether or not a tool of  *)
(* that name is registered: it is admitted exactly when the gate is not    *)
(* refusing; admitted, it takes one slot and gives it back by one release, *)
(* and gets 404 when no route answers; refused, it gets 503 and not 404,   *)
(* with no release.                                                        *)
(***************************************************************************)
C29_Arrival ==
  \A r \in Reqs :
    (req[r].pc = "idle" /\ req'[r].pc # "idle" /\ UnderTools(req'[r].in.path)) =>
      /\ req'[r].pc = "acquired"
      /\ req'[r].allowed = ~refuseRequests
      /\ activeRequests' = IF refuseRequests THEN activeRequests
                                             ELSE activeRequests + 1

C29_Served ==
  \A r \in Reqs :
    (req[r].pc # "idle" /\ UnderTools(req[r].in.path)) =>
      /\ req[r].trace # <<>> /\ req[r].trace[1] = "tryAcquire"
      /\ req[r].relCalls <= 1
      /\ ~req[r].allowed =>
           /\ req[r].pc \in {"acquired", "done"}
           /\ req[r].relCalls = 0
           /\ req[r].pc = "done" => req[r].resp.status = 503
      /\ (req[r].allowed /\ req[r].pc = "done") =>
           /\ req[r].relCalls = 1
           /\ ~RouteMatches(req[r].in) => req[r].resp = NotFoundResponse
           /\ req[r].resp.status # 503

C29_MiddlewareCoversToolPaths == [](C29_Served) /\ [][C29_Arrival]_vars

C29_Witness ==
  \E r \in Reqs :
    /\ req[r].pc = "done"
    /\ req[r].in.path = <<"tools", "nope">> /\ req[r].in.method = "GET"
    /\ ~req[r].allowed /\ req[r].resp.status = 503 /\ req[r].relCalls = 0

(***************************************************************************)
(* servers/google-calendar v2.0.0: getCalendarClient and the access        *)
(* tokens it keeps in access_token_map, a map of the module that every     *)
(* request served by the isolate shares.  The state of the module is the   *)
(* server record with two more fields: the map and the clock (Date.now()). *)
(***************************************************************************)
MaxTime == 3        \* the clock runs from 1 to MaxTime

RefreshTokens == {TokA.text, TokB.text}

\* an access token names the refresh token it was granted for, and when
NoAccess == [for |-> "", n |-> 0]
Granted (refresh_token, now) == [for |-> refresh_token, n |-> now]

\* access_token_map.get(key): undefined, or { access_token, expiresAt }
NoEntry == [some |-> FALSE, access_token |-> NoAccess, expiresAt |-> 0]
AccessToken (access_token, expiresAt) ==
  [some |-> TRUE, access_token |-> access_token, expiresAt |-> expiresAt]

CalendarServer ==
  [userConfig |-> {<<"unauth_test", "bool">>}, oauthConfig |-> TRUE,
   tools |-> <<"create-event">>,
   access_token_map |-> [t \in RefreshTokens |-> NoEntry],
   now |-> 1]

\* the cached token is used whatever its expiry
CacheFresh_Always (cachedToken, now) == cachedToken.some

\* cachedToken && now < cachedToken.expiresAt
CacheFresh (cachedToken, now) == cachedToken.some /\ now < cachedToken.expiresAt

\* client.refreshAccessToken(): credentials, some of them without a token or
\* an expiry (0), or a GaxiosError "invalid_grant", or another error
RefreshOutcomes (refresh_token, now) ==
  {[kind |-> "credentials", access_token |-> a, expiry_date |-> e] :
     a \in {Granted(refresh_token, now), NoAccess}, e \in {0, now, now + 1, now + 2}}
  \cup
  {[kind |-> k, access_token |-> NoAccess, expiry_date |-> 0] :
     k \in {"invalid_grant", "error"}}

AllRefreshOutcomes ==
  UNION {RefreshOutcomes(t, n) : t \in RefreshTokens, n \in 1 .. MaxTime}

\* !credentials.access_token || !credentials.expiry_date
MissingFields (credentials) ==
  credentials.access_token = NoAccess \/ credentials.expiry_date = 0

CalIdle ==
  [pc |-> "idle", refresh_token |-> "", now |-> 0, fromCache |-> FALSE,
   used |-> NoAccess, result |-> ""]

notCalVars == <<gateVars, histVars, callerVars, adminResp, skewed, after500>>

\* getCalendarClient(ctx) up to its await, or to its end when the cache serves
CalBegin (r, refresh_token, unauth_test) ==
  /\ req[r].pc = "idle"
  /\ LET now == server.now
         cachedToken == server.access_token_map[refresh_token]
         call == [CalIdle EXCEPT !.refresh_token = refresh_token, !.now = now]
     IN  req' = [req EXCEPT ![r] =
           IF unauth_test
             THEN [call EXCEPT !.pc = "done", !.result = "Unauthorized"]
           ELSE IF CacheFresh(cachedToken, now)
             THEN [call EXCEPT !.pc = "done", !.result = "client",
                               !.fromCache = TRUE,
                               !.used = cachedToken.access_token]
           ELSE [call EXCEPT !.pc = "refreshing"]]
  /\ UNCHANGED <<server, notCalVars>>

\* refreshAccessToken() has settled: the entry is set, or the call throws
CalRefreshed (r, o) ==
  /\ req[r].pc = "refreshing"
  /\ o \in RefreshOutcomes(req[r].refresh_token, server.now)
  /\ IF o.kind = "credentials" /\ ~MissingFields(o)
       THEN /\ server' = [server EXCEPT !.access_token_map[req[r].refresh_token] =
                            AccessToken(o.access_token, o.expiry_date)]
            /\ req' = [req EXCEPT ![r].pc = "done", ![r].result = "client",
                                  ![r].used = o.access_token]
       ELSE /\ UNCHANGED server
            /\ req' = [req EXCEPT ![r].pc = "done",
                 ![r].result = IF o.kind = "invalid_grant" THEN "Unauthorized"
                               ELSE IF o.kind = "credentials"
                                 THEN "Missing access token fields"
                               ELSE "error"]
  /\ UNCHANGED notCalVars

CalForget (r) ==
  /\ req[r].pc = "done"
  /\ req' = [req EXCEPT ![r] = CalIdle]
  /\ UNCHANGED <<server, notCalVars>>

\* time passes
Tick ==
  /\ server.now < MaxTime
  /\ server' = [server EXCEPT !.now = @ + 1]
  /\ UNCHANGED <<req, notCalVars>>

CalReqs == {1, 2}

(***************************************************************************)
(* C30 (SpecCal).  getCalendarClient uses the entry cached for the refresh *)
(* token of its request exactly when there is one and the time it read is  *)
(* before the entry's expiresAt; otherwise it refreshes.  A refresh that   *)
(* succeeds puts the new token and expiry in the entry of that refresh     *)
(* token and in no other; one that fails leaves the map as it was; nothing *)
(* else changes the map.  No request is served, and no entry filled, with  *)
(* a token granted for another refresh token.                              *)
(***************************************************************************)
C30_Begin ==
  \A r \in CalReqs :
    (req[r].pc = "idle" /\ req'[r].pc # "idle" /\ req'[r].result # "Unauthorized") =>
      LET entry == server.access_token_map[req'[r].refresh_token]
      IN  /\ req'[r].now = server.now
          /\ req'[r].fromCache <=> (entry.some /\ server.now < entry.expiresAt)
          /\ req'[r].fromCache =>
               req'[r].pc = "done" /\ req'[r].used = entry.access_token
          /\ ~req'[r].fromCache => req'[r].pc = "refreshing"

C30_Refresh ==
  \A r \in CalReqs :
    (req[r].pc = "refreshing" /\ req'[r].pc = "done") =>
      IF req'[r].result = "client"
        THEN /\ ~req'[r].fromCache
             /\ req'[r].used = Granted(req[r].refresh_token, server.now)
             /\ server'.access_token_map[req[r].refresh_token].some
             /\ server'.access_token_map[req[r].refresh_token].access_token = req'[r].used
             /\ server'.access_token_map[req[r].refresh_token].expiresAt
                  \in server.now .. server.now + 2
             /\ \A t \in RefreshTokens \ {req[r].refresh_token} :
                  server'.access_token_map[t] = server.access_token_map[t]
        ELSE server'.access_token_map = server.access_token_map

C30_OnlyRefreshWrites ==
  server'.access_token_map # server.access_token_map =>
    \E r \in CalReqs :
      req[r].pc = "refreshing" /\ req'[r].pc = "done" /\ req'[r].result = "client"

C30_OwnToken ==
  /\ \A t \in RefreshTokens :
       server.access_token_map[t].some => server.access_token_map[t].access_token.for = t
  /\ \A r \in CalReqs :
       req[r].result = "client" => req[r].used.for = req[r].refresh_token

C30_TokenCache ==
  [](C30_OwnToken) /\ [][C30_Begin /\ C30_Refresh /\ C30_OnlyRefreshWrites]_vars

C30_Witness ==
  \E r \in CalReqs :
    /\ req[r].pc = "done" /\ req[r].fromCache
    /\ req[r].refresh_token = TokA.text
    /\ req[r].now > req[r].used.n
    /\ server.access_token_map[TokB.text].some
    /\ server.access_token_map[TokB.text].expiresAt <= server.now

(***************************************************************************)
(* Specifications                                                          *)
(***************************************************************************)
\* what a server can declare: userConfig or not, oauthConfig or not
ServerDecls ==
  [userConfig : {{}, {<<"locale", "str">>}}, oauthConfig : BOOLEAN,
   tools : {<<"echo">>}]

TestServer ==
  [userConfig |-> {<<"locale", "str">>}, oauthConfig |-> TRUE, tools |-> <<"echo">>]

\* lines 249-284: a server just constructed, no tool registered yet
NewServer == [userConfig |-> {}, oauthConfig |-> FALSE, tools |-> <<>>]

InitGateVars ==
  /\ activeRequests = 0
  /\ refuseRequests = FALSE
  /\ storage = FALSE
  /\ actor = "ready"
  /\ gateOp = "idle"
  /\ ret = NoRet
  /\ nAcq = 0
  /\ nRel = 0
  /\ noDrain = TRUE
  /\ drained = FALSE
  /\ fresh = FALSE
  /\ lost = 0
  /\ unmatched = FALSE
  /\ wasReset = FALSE

InitServerVars ==
  /\ req = [r \in Reqs |-> IdleReq]
  /\ adminResp = NoAdmin
  /\ skewed = FALSE
  /\ after500 = FALSE

InitGate ==
  /\ InitGateVars
  /\ InitServerVars
  /\ server = TestServer

\* Spec: the server of servers/testserver, which declares both
Init ==
  /\ InitGateVars
  /\ InitServerVars
  /\ server = TestServer

\* SpecPipe: every declaration
InitPipe ==
  /\ InitGateVars
  /\ InitServerVars
  /\ server \in ServerDecls

\* SpecBuild: the set-up of a server, registerTool called any number of times
InitBuild ==
  /\ InitGateVars
  /\ InitServerVars
  /\ server = NewServer

NextBuild ==
  \E name \in ToolNames : \E schema \in {Zod4Schema, Zod3Schema} :
    RegisterTool(name, schema)

NextGate ==
  \/ CallTryAcquire
  \/ CallRelease
  \/ CallGetState
  \/ CallWindDown
  \/ WindDownReturns
  \/ WindDownThrows
  \/ CallReset
  \/ ResetReturns
  \/ ResetThrows
  \/ ActorRestarts
  \/ ActorLoaded

AdminNext ==
  \/ WindDownRoute
  \/ WindDownRouteResponds
  \/ WindDownRouteFails
  \/ ResetRoute
  \/ ResetRouteResponds
  \/ ResetRouteFails
  \/ ActiveRequestsRoute
  \/ GateRestarts
  \/ GateLoaded

RequestNext (r, outcomes) ==
  \/ Refuse(r)
  \/ RouteHeaders(r)
  \/ \E envOk \in BOOLEAN : RouteBody(r, envOk)
  \/ \E o \in outcomes : HandlerCompletes(r, o)
  \/ Release(r)

ForgetAny (r) ==
  /\ Forget(r)
  /\ UNCHANGED after500

\* SpecPipe remembers that a request answered by the catch block has left
ForgetTracked (r) ==
  /\ Forget(r)
  /\ after500' = (after500 \/ req[r].thrown.some)

Next ==
  \/ \E r \in Reqs : \E in \in BasicInputs : ToolRequest(r, in)
  \/ \E r \in Reqs : RequestNext(r, BasicOutcomes)
  \/ \E r \in Reqs : ForgetAny(r)
  \/ AdminNext

NextPipe ==
  \/ \E in \in AllInputs : ToolRequest(1, in)
  \/ RequestNext(1, HandlerOutcomes)
  \/ ForgetTracked(1)
  \/ AdminNext
  \/ \E envOk \in BOOLEAN : DetailsRoute(envOk)

\* SpecDrain: the server under one well-formed request form, where every
\* request that has been admitted goes on: the route and the handler take
\* their steps, a pending storage operation and the load of a restarted
\* actor complete, and a release that is waiting on the gate is delivered.
DrainInput == Input(CfgLocale, TokA, BodyX)

NextDrain ==
  \/ \E r \in Reqs : ToolRequest(r, DrainInput)
  \/ \E r \in Reqs : RequestNext(r, BasicOutcomes)
  \/ \E r \in Reqs : ForgetAny(r)
  \/ AdminNext

FairDrain ==
  /\ \A r \in Reqs :
       /\ WF_vars(RouteHeaders(r))
       /\ WF_vars(\E envOk \in BOOLEAN : RouteBody(r, envOk))
       /\ WF_vars(\E o \in BasicOutcomes : HandlerCompletes(r, o))
       /\ SF_vars(Release(r))
  /\ WF_vars(WindDownRouteResponds \/ WindDownRouteFails)
  /\ WF_vars(ResetRouteResponds \/ ResetRouteFails)
  /\ WF_vars(GateLoaded)

SpecGate == InitGate /\ [][NextGate]_vars
Spec == Init /\ [][Next]_vars
SpecPipe == InitPipe /\ [][NextPipe]_vars
SpecDrain == Init /\ [][NextDrain]_vars /\ FairDrain
SpecBuild == InitBuild /\ [][NextBuild]_vars

\* SpecMaps: the handlers of servers/google-maps, one call at a time
InitMaps ==
  /\ InitGateVars
  /\ adminResp = NoAdmin
  /\ skewed = FALSE
  /\ after500 = FALSE
  /\ server = MapsServer
  /\ req = [r \in Reqs |-> MapsIdle]

NextMaps ==
  \/ \E tool \in MapsTools : \E down \in DownsOf(tool) : MapsCall(1, tool, down)
  \/ MapsReturns(1)
  \/ MapsForget(1)

SpecMaps == InitMaps /\ [][NextMaps]_vars

\* SpecPaths: one request at a time, of any method, to paths under /tools/
\* and outside, with the administration routes and restarts between
NextPaths ==
  \/ \E path \in ToolPaths \cup OtherPaths : \E method \in Methods :
       PathRequest(1, PathInput(path, method))
  \/ Refuse(1)
  \/ NotFound(1)
  \/ MatchedRouteHeaders(1)
  \/ \E envOk \in BOOLEAN : RouteBody(1, envOk)
  \/ \E o \in BasicOutcomes : HandlerCompletes(1, o)
  \/ Release(1)
  \/ ForgetAny(1)
  \/ AdminNext

SpecPaths == Init /\ [][NextPaths]_vars

\* SpecCal: two requests of servers/google-calendar on one isolate
InitCal ==
  /\ InitGateVars
  /\ adminResp = NoAdmin
  /\ skewed = FALSE
  /\ after500 = FALSE
  /\ server = CalendarServer
  /\ req = [r \in Reqs |-> CalIdle]

NextCal ==
  \/ \E r \in CalReqs : \E t \in RefreshTokens : \E unauth_test \in BOOLEAN :
       CalBegin(r, t, unauth_test)
  \/ \E r \in CalReqs : \E o \in AllRefreshOutcomes : CalRefreshed(r, o)
  \/ \E r \in CalReqs : CalForget(r)
  \/ Tick

SpecCal == InitCal /\ [][NextCal]_vars

=============================================================================
